---- MODULE Spec2Model ----
(***************************************************************************)
(* Model of src/code_gen.rs: build_entrypoint, the generator of the       *)
(* synthetic JS entrypoint that nests the layouts of a page, and of the   *)
(* JavaScript program its output text describes.                          *)
(*                                                                         *)
(* The generated text is a sequence of lines.  A line is a record          *)
(* [indent, toks]: the number of leading spaces and the lexical chunks of  *)
(* the line in order (number literals are split into their decimal digits, *)
(* as format!("{}", i) writes them).  Every "\n" of the source ends a line.*)
(***************************************************************************)
EXTENDS Integers, Sequences, FiniteSets, TLC

VARIABLES pc, path_group, is_server, live_reload_import, idx,
          entrypoint_content, rt

vars == <<pc, path_group, is_server, live_reload_import, idx,
          entrypoint_content, rt>>

gen_vars == <<pc, path_group, is_server, live_reload_import, idx,
              entrypoint_content>>

----------------------------------------------------------------------------
(* Bounds *)

MaxLen == 2

MaxMajor == 20

(* Invocations of build_entrypoint that may run at the same time. *)
Procs == {1, 2}

(* Module references handed in by the caller; "./lr" is both a possible
   layout and a possible live-reload module. *)
PathRefs == {"./Layout", "./lr"}

LiveReloadRefs == {"./lr", "./reload"}

Chains == UNION {[1..n -> PathRefs] : n \in 0..MaxLen}

----------------------------------------------------------------------------
(* Text helpers *)

Line(n, toks) == [indent |-> n, toks |-> toks]

BlankLine == Line(0, <<>>)

DigitChars == <<"0", "1", "2", "3", "4", "5", "6", "7", "8", "9">>

IsDigit(c) == \E d \in 1..10 : DigitChars[d] = c

DigitValue(c) == (CHOOSE d \in 1..10 : DigitChars[d] = c) - 1

(* format!("{}", n) for an unsigned integer: its decimal digits. *)
RECURSIVE Digits(_)
Digits(n) == IF n < 10 THEN <<DigitChars[n + 1]>>
             ELSE Digits(n \div 10) \o <<DigitChars[(n % 10) + 1]>>

(* The number a sequence of decimal digits denotes. *)
RECURSIVE ParseDec(_)
ParseDec(ds) == IF ds = <<>> THEN 0
                ELSE 10 * ParseDec(SubSeq(ds, 1, Len(ds) - 1))
                     + DigitValue(ds[Len(ds)])

AllDigits(ds) == ds # <<>> /\ \A k \in 1..Len(ds) : IsDigit(ds[k])

(* Length of the string "        " that the tag loops repeat. *)
IndentUnit == 8

(* "        ".repeat(n), as the number of spaces it holds. *)
Repeat(n) == IndentUnit * n

----------------------------------------------------------------------------
(* The pieces of text build_entrypoint appends *)

ImportReactLine ==
    Line(0, <<"import", "React", "from", "'", "react", "'", ";">>)

ImportLiveReloadLinesFixed(lr) ==
    << Line(0, <<"import", "mountLiveReload", "from", "'", "./lr", "'", ";">>),
       BlankLine >>

ImportLiveReloadLines(lr) ==
    << Line(0, <<"import", "mountLiveReload", "from", "'", lr, "'", ";">>),
       BlankLine >>

ImportLayoutLineOffByOne(j, path) ==
    Line(0, <<"import", "Layout">> \o Digits(j + 1)
            \o <<"from", "'", path, "'", ";">>)

ImportLayoutLine(j, path) ==
    Line(0, <<"import", "Layout">> \o Digits(j)
            \o <<"from", "'", path, "'", ";">>)

MountLiveReloadLine ==
    Line(4, <<"mountLiveReload", "(", "{",
              "SSR_RENDERING", ":", "process", ".", "env", ".", "SSR_RENDERING", ",",
              "NODE_ENV", ":", "process", ".", "env", ".", "NODE_ENV", ",",
              "LIVE_RELOAD_PORT", ":", "process", ".", "env", ".", "LIVE_RELOAD_PORT",
              "}", ")", ";">>)

EntrypointOpenLines ==
    << BlankLine,
       Line(0, <<"const", "Entrypoint", "=", "(", ")", "=>", "{">>),
       MountLiveReloadLine,
       Line(4, <<"return", "(">>) >>

OpenTagLineDoubling(i) ==
    Line(Repeat(2 * i + 1), <<"<", "Layout">> \o Digits(i) \o <<">">>)

OpenTagLine(i) ==
    Line(Repeat(i + 1), <<"<", "Layout">> \o Digits(i) \o <<">">>)

CloseTagLine(i) ==
    Line(Repeat(i + 1), <<"</", "Layout">> \o Digits(i) \o <<">">>)

EntrypointCloseLines ==
    << Line(4, <<")", ";">>),
       Line(0, <<"}", ";">>),
       BlankLine >>

ClientTailLines ==
    << Line(0, <<"import", "{", "hydrateRoot", "}", "from",
                 "'", "react-dom/client", "'", ";">>),
       Line(0, <<"const", "container", "=", "document", ".", "getElementById",
                 "(", "'", "root", "'", ")", ";">>),
       Line(0, <<"hydrateRoot", "(", "container", ",",
                 "<", "Entrypoint", "/>", ")", ";">>) >>

GetRenderToStringLinesSwapped ==
    << Line(0, <<"//", "Dynamically import renderToString based on React version">>),
       Line(0, <<"async", "function", "getRenderToString", "(", ")", "{">>),
       Line(2, <<"const", "reactVersion", "=", "React", ".", "version", ";">>),
       Line(2, <<"const", "majorVersion", "=", "parseInt", "(", "reactVersion",
                 ".", "split", "(", "'.'", ")", "[", "0", "]", ",", "1", "0",
                 ")", ";">>),
       BlankLine,
       Line(2, <<"if", "(", "majorVersion", ">=", "1", "9", ")", "{">>),
       Line(4, <<"return", "(", "await", "import", "(", "'", "react-dom/server",
                 "'", ")", ")", ".", "renderToString", ";">>),
       Line(2, <<"}", "else", "{">>),
       Line(4, <<"return", "(", "await", "import", "(", "'",
                 "react-dom/server.edge", "'", ")", ")", ".", "renderToString", ";">>),
       Line(2, <<"}">>),
       Line(0, <<"}">>),
       BlankLine >>

GetRenderToStringLines ==
    << Line(0, <<"//", "Dynamically import renderToString based on React version">>),
       Line(0, <<"async", "function", "getRenderToString", "(", ")", "{">>),
       Line(2, <<"const", "reactVersion", "=", "React", ".", "version", ";">>),
       Line(2, <<"const", "majorVersion", "=", "parseInt", "(", "reactVersion",
                 ".", "split", "(", "'.'", ")", "[", "0", "]", ",", "1", "0",
                 ")", ";">>),
       BlankLine,
       Line(2, <<"if", "(", "majorVersion", ">=", "1", "9", ")", "{">>),
       Line(4, <<"return", "(", "await", "import", "(", "'",
                 "react-dom/server.edge", "'", ")", ")", ".", "renderToString", ";">>),
       Line(2, <<"}", "else", "{">>),
       Line(4, <<"return", "(", "await", "import", "(", "'", "react-dom/server",
                 "'", ")", ")", ".", "renderToString", ";">>),
       Line(2, <<"}">>),
       Line(0, <<"}">>),
       BlankLine >>

IndexLinesAwaitRender ==
    << Line(0, <<"export", "const", "Index", "=", "async", "(", ")", "=>", "{">>),
       Line(2, <<"const", "renderToString", "=", "await", "getRenderToString",
                 "(", ")", ";">>),
       Line(2, <<"return", "await", "renderToString", "(", "<", "Entrypoint", "/>",
                 ")", ";">>),
       Line(0, <<"}", ";">>) >>

IndexLines ==
    << Line(0, <<"export", "const", "Index", "=", "async", "(", ")", "=>", "{">>),
       Line(2, <<"const", "renderToString", "=", "await", "getRenderToString",
                 "(", ")", ";">>),
       Line(2, <<"return", "renderToString", "(", "<", "Entrypoint", "/>", ")", ";">>),
       Line(0, <<"}", ";">>) >>

ServerTailLines == GetRenderToStringLines \o IndexLines

----------------------------------------------------------------------------
(* The runtime that loads the generated module: not started. *)
RtIdle == [st |-> "idle"]

Init ==
    /\ pc = [p \in Procs |-> "idle"]
    /\ path_group = [p \in Procs |-> <<>>]
    /\ is_server = [p \in Procs |-> FALSE]
    /\ live_reload_import = [p \in Procs |-> "./lr"]
    /\ idx = [p \in Procs |-> 0]
    /\ entrypoint_content = [p \in Procs |-> <<>>]
    /\ rt = RtIdle

----------------------------------------------------------------------------
(* build_entrypoint, statement by statement *)

(* A render mode kept in one flag shared by all invocations. *)
InvokeSharedFlag(p, chain, srv, lr) ==
    /\ pc[p] = "idle"
    /\ path_group' = [path_group EXCEPT ![p] = chain]
    /\ is_server' = [q \in Procs |-> srv]
    /\ live_reload_import' = [live_reload_import EXCEPT ![p] = lr]
    /\ entrypoint_content' = [entrypoint_content EXCEPT
           ![p] = <<ImportReactLine>> \o ImportLiveReloadLines(lr)]
    /\ idx' = [idx EXCEPT ![p] = 0]
    /\ pc' = [pc EXCEPT ![p] = "imports"]
    /\ UNCHANGED rt

(* The call with its arguments, and the preamble. *)
Invoke(p, chain, srv, lr) ==
    /\ pc[p] = "idle"
    /\ path_group' = [path_group EXCEPT ![p] = chain]
    /\ is_server' = [is_server EXCEPT ![p] = srv]
    /\ live_reload_import' = [live_reload_import EXCEPT ![p] = lr]
    /\ entrypoint_content' = [entrypoint_content EXCEPT
           ![p] = <<ImportReactLine>> \o ImportLiveReloadLines(lr)]
    /\ idx' = [idx EXCEPT ![p] = 0]
    /\ pc' = [pc EXCEPT ![p] = "imports"]
    /\ UNCHANGED rt

(* One iteration of the import loop. *)
ImportLayout(p) ==
    /\ pc[p] = "imports"
    /\ idx[p] < Len(path_group[p])
    /\ entrypoint_content' = [entrypoint_content EXCEPT
           ![p] = Append(@, ImportLayoutLine(idx[p], path_group[p][idx[p] + 1]))]
    /\ idx' = [idx EXCEPT ![p] = @ + 1]
    /\ UNCHANGED <<pc, path_group, is_server, live_reload_import, rt>>

(* A declaration whose mount call depends on the render mode. *)
DeclareEntrypointTrimmed(p) ==
    /\ pc[p] = "imports"
    /\ idx[p] = Len(path_group[p])
    /\ entrypoint_content' = [entrypoint_content EXCEPT
           ![p] = @ \o (IF is_server[p]
                        THEN <<EntrypointOpenLines[1], EntrypointOpenLines[2],
                               EntrypointOpenLines[4]>>
                        ELSE EntrypointOpenLines)]
    /\ idx' = [idx EXCEPT ![p] = 0]
    /\ pc' = [pc EXCEPT ![p] = "nest"]
    /\ UNCHANGED <<path_group, is_server, live_reload_import, rt>>

(* End of the import loop; the head of the Entrypoint component. *)
DeclareEntrypoint(p) ==
    /\ pc[p] = "imports"
    /\ idx[p] = Len(path_group[p])
    /\ entrypoint_content' = [entrypoint_content EXCEPT
           ![p] = @ \o EntrypointOpenLines]
    /\ idx' = [idx EXCEPT ![p] = 0]
    /\ pc' = [pc EXCEPT ![p] = "nest"]
    /\ UNCHANGED <<path_group, is_server, live_reload_import, rt>>

(* One iteration of the loop that opens the layouts. *)
NestLayout(p) ==
    /\ pc[p] = "nest"
    /\ idx[p] < Len(path_group[p])
    /\ entrypoint_content' = [entrypoint_content EXCEPT
           ![p] = Append(@, OpenTagLine(idx[p]))]
    /\ idx' = [idx EXCEPT ![p] = @ + 1]
    /\ UNCHANGED <<pc, path_group, is_server, live_reload_import, rt>>

(* The closing loop run forwards. *)
RevIndexForward(remaining, n) == n - remaining

(* enumerate().rev(): the index yielded when `remaining` items are left. *)
RevIndex(remaining, n) == remaining - 1

(* End of the opening loop; the reversed iterator is created. *)
NestDone(p) ==
    /\ pc[p] = "nest"
    /\ idx[p] = Len(path_group[p])
    /\ pc' = [pc EXCEPT ![p] = "close"]
    /\ UNCHANGED <<path_group, is_server, live_reload_import, idx,
                   entrypoint_content, rt>>

(* One iteration of the loop that closes the layouts. *)
CloseLayout(p) ==
    /\ pc[p] = "close"
    /\ idx[p] > 0
    /\ entrypoint_content' = [entrypoint_content EXCEPT
           ![p] = Append(@, CloseTagLine(RevIndex(idx[p], Len(path_group[p]))))]
    /\ idx' = [idx EXCEPT ![p] = @ - 1]
    /\ UNCHANGED <<pc, path_group, is_server, live_reload_import, rt>>

(* End of the closing loop; the end of the Entrypoint component. *)
CloseEntrypoint(p) ==
    /\ pc[p] = "close"
    /\ idx[p] = 0
    /\ entrypoint_content' = [entrypoint_content EXCEPT
           ![p] = @ \o EntrypointCloseLines]
    /\ pc' = [pc EXCEPT ![p] = "tail"]
    /\ UNCHANGED <<path_group, is_server, live_reload_import, idx, rt>>

(* A client tail that also carries the server function. *)
ClientTailBoth(p) ==
    /\ pc[p] = "tail"
    /\ ~is_server[p]
    /\ entrypoint_content' = [entrypoint_content EXCEPT
           ![p] = @ \o ClientTailLines \o ServerTailLines]
    /\ pc' = [pc EXCEPT ![p] = "return"]
    /\ UNCHANGED <<path_group, is_server, live_reload_import, idx, rt>>

(* if !is_server: the hydration code. *)
ClientTail(p) ==
    /\ pc[p] = "tail"
    /\ ~is_server[p]
    /\ entrypoint_content' = [entrypoint_content EXCEPT
           ![p] = @ \o ClientTailLines]
    /\ pc' = [pc EXCEPT ![p] = "return"]
    /\ UNCHANGED <<path_group, is_server, live_reload_import, idx, rt>>

(* else: getRenderToString and the exported Index. *)
ServerTail(p) ==
    /\ pc[p] = "tail"
    /\ is_server[p]
    /\ entrypoint_content' = [entrypoint_content EXCEPT
           ![p] = @ \o ServerTailLines]
    /\ pc' = [pc EXCEPT ![p] = "return"]
    /\ UNCHANGED <<path_group, is_server, live_reload_import, idx, rt>>

(* The buffer is returned to the caller. *)
Return(p) ==
    /\ pc[p] = "return"
    /\ pc' = [pc EXCEPT ![p] = "done"]
    /\ UNCHANGED <<path_group, is_server, live_reload_import, idx,
                   entrypoint_content, rt>>

(* The caller is finished with the returned text and drops it; the module
   it was loaded as goes with it. *)
Release(p) ==
    /\ pc[p] = "done"
    /\ rt.st # "run"
    /\ pc' = [pc EXCEPT ![p] = "idle"]
    /\ path_group' = [path_group EXCEPT ![p] = <<>>]
    /\ is_server' = [is_server EXCEPT ![p] = FALSE]
    /\ live_reload_import' = [live_reload_import EXCEPT ![p] = "./lr"]
    /\ entrypoint_content' = [entrypoint_content EXCEPT ![p] = <<>>]
    /\ rt' = RtIdle
    /\ UNCHANGED idx

Step(p) ==
    \/ ImportLayout(p)
    \/ DeclareEntrypoint(p)
    \/ NestLayout(p)
    \/ NestDone(p)
    \/ CloseLayout(p)
    \/ CloseEntrypoint(p)
    \/ ClientTail(p)
    \/ ServerTail(p)
    \/ Return(p)

Call(p) ==
    \E chain \in Chains, srv \in BOOLEAN, lr \in LiveReloadRefs :
        Invoke(p, chain, srv, lr)

Next == \E p \in Procs : Call(p) \/ Step(p) \/ Release(p)

Spec == Init /\ [][Next]_vars

----------------------------------------------------------------------------
(* The JavaScript program the generated text describes, run line by line. *)

Text == entrypoint_content[rt.src]

FindLines(text, toks) == {k \in 1..Len(text) : text[k].toks = toks}

Min(S) == CHOOSE k \in S : \A m \in S : k <= m

(* Comment lines and blank lines are not statements. *)
IsStatement(l) == l.toks # <<>> /\ l.toks[1] # "//"

NextStatement(text, k) ==
    Min({m \in (k + 1)..Len(text) : IsStatement(text[m])})

(* The pieces of s between the occurrences of sep. *)
RECURSIVE SplitOn(_, _)
SplitOn(s, sep) ==
    IF \A k \in 1..Len(s) : s[k] # sep
    THEN <<s>>
    ELSE LET d == Min({k \in 1..Len(s) : s[k] = sep})
         IN  <<SubSeq(s, 1, d - 1)>> \o SplitOn(SubSeq(s, d + 1, Len(s)), sep)

(* String.prototype.split('.') *)
SplitDot(s) == SplitOn(s, ".")

(* The longest prefix of decimal digits. *)
RECURSIVE DigitPrefix(_)
DigitPrefix(s) ==
    IF s = <<>> \/ ~IsDigit(s[1]) THEN <<>>
    ELSE <<s[1]>> \o DigitPrefix(Tail(s))

(* parseInt(s, 10): NaN when s does not start with a digit. *)
ParseInt(s) ==
    IF DigitPrefix(s) = <<>> THEN [nan |-> TRUE, val |-> 0]
    ELSE [nan |-> FALSE, val |-> ParseDec(DigitPrefix(s))]

(* a >= n in JavaScript: false when a is NaN. *)
GreaterEq(a, n) == ~a.nan /\ a.val >= n

(* React.version of a release: major.minor.0 *)
VersionString(major, minor) ==
    Digits(major) \o <<".">> \o Digits(minor) \o <<".", "0">>

ReactMajors == 0..MaxMajor

ReactMinors == {0, 19}

Bind(env, x, v) ==
    [n \in (DOMAIN env) \cup {x} |-> IF n = x THEN v ELSE env[n]]

NoEnv == [n \in {} |-> 0]

IndexHeader == <<"export", "const", "Index", "=", "async", "(", ")", "=>", "{">>

FunctionHeader(f) == <<"async", "function", f, "(", ")", "{">>

(* The caller invokes the exported Index of the module generated by p. *)
RtInvokeIndex(p, major, minor) ==
    /\ rt.st # "run"
    /\ pc[p] = "done"
    /\ FindLines(entrypoint_content[p], IndexHeader) # {}
    /\ rt' = [st |-> "run", src |-> p, major |-> major,
              version |-> VersionString(major, minor),
              at |-> NextStatement(entrypoint_content[p],
                                   Min(FindLines(entrypoint_content[p], IndexHeader))),
              stack |-> <<>>, env |-> NoEnv, trace |-> <<>>, result |-> <<>>]
    /\ UNCHANGED gen_vars

(* const x = await f(); *)
RtAwaitCall ==
    /\ rt.st = "run"
    /\ LET cur == Text[rt.at].toks IN
       /\ Len(cur) = 8
       /\ <<cur[1], cur[3], cur[4], cur[6], cur[7], cur[8]>>
            = <<"const", "=", "await", "(", ")", ";">>
       /\ FindLines(Text, FunctionHeader(cur[5])) # {}
       /\ rt' = [rt EXCEPT
              !.stack = Append(@, [ret |-> rt.at, var |-> cur[2]]),
              !.at = NextStatement(Text, Min(FindLines(Text, FunctionHeader(cur[5]))))]
    /\ UNCHANGED gen_vars

(* const x = React.version; *)
RtReadVersion ==
    /\ rt.st = "run"
    /\ LET cur == Text[rt.at].toks IN
       /\ Len(cur) = 7
       /\ <<cur[1], cur[3], cur[4], cur[5], cur[6], cur[7]>>
            = <<"const", "=", "React", ".", "version", ";">>
       /\ rt' = [rt EXCEPT !.env = Bind(@, cur[2], rt.version),
                           !.at = NextStatement(Text, rt.at)]
    /\ UNCHANGED gen_vars

(* const x = parseInt(y.split('.')[0], 10); *)
RtParseMajor ==
    /\ rt.st = "run"
    /\ LET cur == Text[rt.at].toks IN
       /\ Len(cur) = 19
       /\ <<cur[1], cur[3], cur[4], cur[5]>> = <<"const", "=", "parseInt", "(">>
       /\ SubSeq(cur, 7, 19) = <<".", "split", "(", "'.'", ")", "[", "0", "]",
                                 ",", "1", "0", ")", ";">>
       /\ cur[6] \in DOMAIN rt.env
       /\ rt' = [rt EXCEPT
              !.env = Bind(@, cur[2], ParseInt(SplitDot(rt.env[cur[6]])[1])),
              !.at = NextStatement(Text, rt.at)]
    /\ UNCHANGED gen_vars

(* The line of the else that belongs to the if on line k. *)
ElseLine(text, k) ==
    Min({m \in (k + 1)..Len(text) :
            text[m].toks = <<"}", "else", "{">> /\ text[m].indent = text[k].indent})

(* if (x >= N) { ... } else { ... } *)
RtBranch ==
    /\ rt.st = "run"
    /\ LET cur == Text[rt.at].toks IN
       /\ Len(cur) > 6
       /\ SubSeq(cur, 1, 2) = <<"if", "(">>
       /\ cur[4] = ">="
       /\ SubSeq(cur, Len(cur) - 1, Len(cur)) = <<")", "{">>
       /\ AllDigits(SubSeq(cur, 5, Len(cur) - 2))
       /\ cur[3] \in DOMAIN rt.env
       /\ rt' = [rt EXCEPT !.at =
              IF GreaterEq(rt.env[cur[3]], ParseDec(SubSeq(cur, 5, Len(cur) - 2)))
              THEN NextStatement(Text, rt.at)
              ELSE NextStatement(Text, ElseLine(Text, rt.at))]
    /\ UNCHANGED gen_vars

(* return (await import('path')).renderToString; *)
RtReturnImport ==
    /\ rt.st = "run"
    /\ rt.stack # <<>>
    /\ LET cur == Text[rt.at].toks
           frame == rt.stack[Len(rt.stack)] IN
       /\ Len(cur) = 13
       /\ SubSeq(cur, 1, 6) = <<"return", "(", "await", "import", "(", "'">>
       /\ SubSeq(cur, 8, 13) = <<"'", ")", ")", ".", "renderToString", ";">>
       /\ rt' = [rt EXCEPT
              !.trace = Append(@, [op |-> "import", of |-> cur[7], awaited |-> TRUE]),
              !.env = Bind(@, frame.var, cur[7]),
              !.stack = SubSeq(@, 1, Len(@) - 1),
              !.at = NextStatement(Text, frame.ret)]
    /\ UNCHANGED gen_vars

(* return f(<Entrypoint />);  or  return await f(<Entrypoint />); *)
RtReturnRender ==
    /\ rt.st = "run"
    /\ rt.stack = <<>>
    /\ LET cur == Text[rt.at].toks
           rest == IF Len(cur) > 1 /\ cur[2] = "await" THEN Tail(Tail(cur)) ELSE Tail(cur) IN
       /\ Len(cur) >= 8
       /\ cur[1] = "return"
       /\ Len(rest) = 7
       /\ Tail(rest) = <<"(", "<", "Entrypoint", "/>", ")", ";">>
       /\ rest[1] \in DOMAIN rt.env
       /\ rt' = [rt EXCEPT
              !.trace = Append(@, [op |-> "render", of |-> rt.env[rest[1]],
                                   awaited |-> (cur[2] = "await")]),
              !.result = <<"renderToString", rt.env[rest[1]], "Entrypoint">>,
              !.st = "returned"]
    /\ UNCHANGED gen_vars

RtStep ==
    \/ RtAwaitCall
    \/ RtReadVersion
    \/ RtParseMajor
    \/ RtBranch
    \/ RtReturnImport
    \/ RtReturnRender

(* One generation, and the generated module run by its caller. *)
NextRun ==
    \/ Call(1)
    \/ Step(1)
    \/ Release(1)
    \/ \E major \in ReactMajors, minor \in ReactMinors : RtInvokeIndex(1, major, minor)
    \/ RtStep

SpecRun == Init /\ [][NextRun]_vars

----------------------------------------------------------------------------
(* Reading the generated text *)

Done(p) == pc[p] = "done"

Out(p) == entrypoint_content[p]

HasToken(text, t) ==
    \E k \in 1..Len(text) : \E n \in 1..Len(text[k].toks) : text[k].toks[n] = t

(* import <binding> from '<source>'; *)
IsImport(l) ==
    /\ Len(l.toks) >= 6
    /\ l.toks[1] = "import"
    /\ SubSeq(l.toks, Len(l.toks) - 4, Len(l.toks) - 3) = <<"from", "'">>
    /\ SubSeq(l.toks, Len(l.toks) - 1, Len(l.toks)) = <<"'", ";">>

ImportSource(l) == l.toks[Len(l.toks) - 2]

ImportBinding(l) == SubSeq(l.toks, 2, Len(l.toks) - 5)

IsLayoutName(name) ==
    Len(name) >= 2 /\ name[1] = "Layout" /\ AllDigits(Tail(name))

IsLayoutImport(l) == IsImport(l) /\ IsLayoutName(ImportBinding(l))

LayoutImports(text) == SelectSeq(text, IsLayoutImport)

IsOpenTag(l) ==
    /\ Len(l.toks) >= 4
    /\ l.toks[1] = "<"
    /\ l.toks[Len(l.toks)] = ">"
    /\ IsLayoutName(SubSeq(l.toks, 2, Len(l.toks) - 1))

IsCloseTag(l) ==
    /\ Len(l.toks) >= 4
    /\ l.toks[1] = "</"
    /\ l.toks[Len(l.toks)] = ">"
    /\ IsLayoutName(SubSeq(l.toks, 2, Len(l.toks) - 1))

TagName(l) == SubSeq(l.toks, 2, Len(l.toks) - 1)

TagIndex(l) == ParseDec(Tail(TagName(l)))

(* The lines between "return (" and the next ");". *)
Markup(text) ==
    LET r == Min(FindLines(text, <<"return", "(">>))
        e == Min({k \in (r + 1)..Len(text) : text[k].toks = <<")", ";">>})
    IN  SubSeq(text, r + 1, e - 1)

(* The tags read left to right with a stack of open indexes. *)
RECURSIVE StackRun(_, _)
StackRun(lines, stack) ==
    IF lines = <<>> THEN [ok |-> TRUE, stack |-> stack]
    ELSE IF IsOpenTag(Head(lines))
         THEN StackRun(Tail(lines), Append(stack, TagIndex(Head(lines))))
    ELSE IF /\ IsCloseTag(Head(lines))
            /\ stack # <<>>
            /\ stack[Len(stack)] = TagIndex(Head(lines))
         THEN StackRun(Tail(lines), SubSeq(stack, 1, Len(stack) - 1))
    ELSE [ok |-> FALSE, stack |-> stack]

Balanced(lines) == StackRun(lines, <<>>) = [ok |-> TRUE, stack |-> <<>>]

----------------------------------------------------------------------------
(* C1: for a chain of length N the markup between "return (" and ");" is
   N opening tags Layout0..Layout(N-1) in increasing order followed by N
   closing tags in the reverse order; read with a stack no closing tag pops
   a mismatched index and the stack ends empty. *)
C1_StackBalance ==
    \A p \in Procs : Done(p) =>
        LET m == Markup(Out(p))
            N == Len(path_group[p])
        IN  /\ Len(m) = 2 * N
            /\ \A i \in 1..N : IsOpenTag(m[i]) /\ TagIndex(m[i]) = i - 1
            /\ \A i \in 1..N : IsCloseTag(m[N + i]) /\ TagIndex(m[N + i]) = N - i
            /\ Balanced(m)

C1_Witness ==
    \E p \in Procs : Done(p) /\ Len(path_group[p]) >= 2 /\ is_server[p]
                     /\ Len(Markup(Out(p))) >= 4

(* C2: for the empty chain the output has no layout import and no tag, and
   the expression between "return (" and ");" is a markup expression, not
   an empty pair of parentheses. *)
C2_EmptyChainWellFormed ==
    \A p \in Procs : (Done(p) /\ path_group[p] = <<>>) =>
        /\ LayoutImports(Out(p)) = <<>>
        /\ \A k \in 1..Len(Out(p)) : ~IsOpenTag(Out(p)[k]) /\ ~IsCloseTag(Out(p)[k])
        /\ Markup(Out(p)) # <<>>
        /\ Balanced(Markup(Out(p)))

(* C3: the tails exclude each other: a client output holds the hydrateRoot
   import, the lookup of 'root' and the top-level hydrateRoot call and
   neither getRenderToString nor Index; a server output holds the exported
   async Index once and no hydrateRoot, no DOM lookup. *)
C3_TailsExclusive ==
    \A p \in Procs : Done(p) =>
        IF is_server[p]
        THEN /\ Cardinality(FindLines(Out(p), IndexHeader)) = 1
             /\ ~HasToken(Out(p), "hydrateRoot")
             /\ ~HasToken(Out(p), "getElementById")
             /\ ~HasToken(Out(p), "document")
        ELSE /\ \E k \in 1..Len(Out(p)) :
                    /\ IsImport(Out(p)[k])
                    /\ ImportBinding(Out(p)[k]) = <<"{", "hydrateRoot", "}">>
             /\ \E k \in 1..Len(Out(p)) :
                    /\ Len(Out(p)[k].toks) >= 11
                    /\ SubSeq(Out(p)[k].toks, 4, 11)
                         = <<"document", ".", "getElementById", "(", "'", "root", "'", ")">>
             /\ \E k \in 1..Len(Out(p)) :
                    /\ Out(p)[k].indent = 0
                    /\ Len(Out(p)[k].toks) >= 2
                    /\ SubSeq(Out(p)[k].toks, 1, 2) = <<"hydrateRoot", "(">>
                    /\ k > Min(FindLines(Out(p), <<"}", ";">>))
             /\ ~HasToken(Out(p), "getRenderToString")
             /\ ~HasToken(Out(p), "Index")
             /\ ~HasToken(Out(p), "async")

C3_Witness ==
    \E p \in Procs, q \in Procs :
        /\ Done(p) /\ ~is_server[p] /\ HasToken(Out(p), "hydrateRoot")
        /\ Done(q) /\ is_server[q] /\ HasToken(Out(q), "Index")

(* The fields of the object passed to mountLiveReload: key and value. *)
IsMountCall(l) ==
    /\ Len(l.toks) >= 6
    /\ SubSeq(l.toks, 1, 3) = <<"mountLiveReload", "(", "{">>
    /\ SubSeq(l.toks, Len(l.toks) - 2, Len(l.toks)) = <<"}", ")", ";">>

MountFields(l) == SplitOn(SubSeq(l.toks, 4, Len(l.toks) - 3), ",")

ForwardedField(name) == <<name, ":", "process", ".", "env", ".", name>>

MountCallForwardsThree(text) ==
    /\ Cardinality({k \in 1..Len(text) : HasToken(<<text[k]>>, "mountLiveReload")
                                         /\ ~IsImport(text[k])}) = 1
    /\ \E k \in 1..Len(text) :
           /\ IsMountCall(text[k])
           /\ MountFields(text[k]) = << ForwardedField("SSR_RENDERING"),
                                        ForwardedField("NODE_ENV"),
                                        ForwardedField("LIVE_RELOAD_PORT") >>

ImportsFrom(text, src) ==
    {k \in 1..Len(text) : IsImport(text[k]) /\ ImportSource(text[k]) = src}

(* C4 as stated: exactly one import statement whose source is the
   live-reload reference, and one mountLiveReload call forwarding the three
   fields, also when a chain entry is the live-reload reference. *)
C4_SingleImportOfSource ==
    \A p \in Procs : Done(p) =>
        /\ Cardinality(ImportsFrom(Out(p), live_reload_import[p])) = 1
        /\ MountCallForwardsThree(Out(p))

(* C4, amended: exactly one import statement binds mountLiveReload and its
   source is the live-reload reference; the only other imports from that
   source are the Layout<i> imports of the chain entries equal to it; one
   mountLiveReload call forwards the three fields. *)
C4_SingleMountImport ==
    \A p \in Procs : Done(p) =>
        LET text == Out(p)
            lr == live_reload_import[p]
            mounts == {k \in 1..Len(text) :
                          IsImport(text[k])
                          /\ ImportBinding(text[k]) = <<"mountLiveReload">>}
        IN  /\ Cardinality(mounts) = 1
            /\ \A k \in mounts : ImportSource(text[k]) = lr
            /\ \A k \in ImportsFrom(text, lr) \ mounts :
                   /\ IsLayoutImport(text[k])
                   /\ path_group[p][ParseDec(Tail(ImportBinding(text[k]))) + 1] = lr
            /\ Cardinality(ImportsFrom(text, lr))
                 = 1 + Cardinality({i \in 1..Len(path_group[p]) : path_group[p][i] = lr})
            /\ MountCallForwardsThree(text)

C4_Witness ==
    \E p \in Procs :
        /\ Done(p)
        /\ \E i \in 1..Len(path_group[p]) : path_group[p][i] = live_reload_import[p]
        /\ Cardinality(ImportsFrom(Out(p), live_reload_import[p])) >= 2

(* import('path') of a return line of getRenderToString *)
IsReturnImport(l) ==
    /\ Len(l.toks) = 13
    /\ SubSeq(l.toks, 1, 6) = <<"return", "(", "await", "import", "(", "'">>

IsVersionBranch(l) ==
    /\ Len(l.toks) > 6
    /\ SubSeq(l.toks, 1, 4) = <<"if", "(", "majorVersion", ">=">>
    /\ AllDigits(SubSeq(l.toks, 5, Len(l.toks) - 2))

(* C5: a server output holds one version branch, against 19, between two
   distinct import paths; run with React major version v, getRenderToString
   imports 'react-dom/server.edge' when v >= 19 and 'react-dom/server' when
   v < 19, exactly one of them. *)
C5_VersionBranch ==
    /\ \A p \in Procs : (Done(p) /\ is_server[p]) =>
          LET text == Out(p)
              branches == {k \in 1..Len(text) : IsVersionBranch(text[k])}
          IN  /\ Cardinality(branches) = 1
              /\ \A k \in branches :
                     ParseDec(SubSeq(text[k].toks, 5, Len(text[k].toks) - 2)) = 19
              /\ {text[k].toks[7] : k \in {n \in 1..Len(text) : IsReturnImport(text[n])}}
                   = {"react-dom/server.edge", "react-dom/server"}
              /\ Cardinality({n \in 1..Len(text) : IsReturnImport(text[n])}) = 2
    /\ (rt.st # "idle" /\ "renderToString" \in DOMAIN rt.env) =>
          LET imports == SelectSeq(rt.trace, LAMBDA e : e.op = "import")
          IN  /\ Len(imports) = 1
              /\ imports[1].of = IF rt.major >= 19 THEN "react-dom/server.edge"
                                 ELSE "react-dom/server"

C5_Witness ==
    /\ rt.st = "returned"
    /\ rt.major = 19
    /\ rt.version = <<"1", "9", ".", "1", "9", ".", "0">>
    /\ rt.trace[1].of = "react-dom/server.edge"

(* C6: N layout imports in chain order, the i-th binding Layout<i> to the
   i-th entry verbatim; the names are distinct for distinct positions and
   the i-th pair of tags uses the name the i-th import binds. *)
C6_LayoutImports ==
    \A p \in Procs : Done(p) =>
        LET li == LayoutImports(Out(p))
            m == Markup(Out(p))
            N == Len(path_group[p])
        IN  /\ Len(li) = N
            /\ \A i \in 1..N :
                   /\ ImportBinding(li[i]) = <<"Layout">> \o Digits(i - 1)
                   /\ ImportSource(li[i]) = path_group[p][i]
            /\ \A i \in 1..N : \A k \in 1..N :
                   i # k => ImportBinding(li[i]) # ImportBinding(li[k])
            /\ Len(m) = 2 * N
            /\ \A i \in 1..N :
                   /\ TagName(m[i]) = ImportBinding(li[i])
                   /\ TagName(m[2 * N + 1 - i]) = ImportBinding(li[i])

C6_Witness ==
    \E p \in Procs :
        /\ Done(p)
        /\ Len(path_group[p]) >= 2
        /\ path_group[p][1] = path_group[p][2]
        /\ Len(LayoutImports(Out(p))) >= 2

(* C7 as stated: an invocation of Index performs one awaited dynamic import
   and then one awaited render call. *)
C7_AwaitedRender ==
    rt.st = "returned" =>
        /\ Len(rt.trace) = 2
        /\ rt.trace[1].op = "import" /\ rt.trace[1].awaited
        /\ rt.trace[2].op = "render" /\ rt.trace[2].awaited

(* C7, amended: an invocation of Index performs one awaited dynamic import
   and then one render call, one after the other; the render call uses the
   function the import resolved, is not awaited, and its value is what
   Index returns. *)
C7_SequentialImportRender ==
    rt.st # "idle" =>
        /\ Len(rt.trace) <= 2
        /\ Len(rt.trace) >= 1 => rt.trace[1].op = "import" /\ rt.trace[1].awaited
        /\ Len(rt.trace) = 2 =>
              /\ rt.trace[2].op = "render"
              /\ ~rt.trace[2].awaited
              /\ rt.trace[2].of = rt.trace[1].of
        /\ rt.st = "returned" <=> Len(rt.trace) = 2
        /\ rt.st = "returned" =>
              rt.result = <<"renderToString", rt.trace[1].of, "Entrypoint">>

C7_Witness ==
    /\ rt.st = "returned"
    /\ Len(rt.trace) = 2
    /\ rt.major < 19
    /\ rt.result = <<"renderToString", "react-dom/server", "Entrypoint">>

(* Steps an invocation still has to take. *)
Rank(p) ==
    LET N == Len(path_group[p]) IN
    CASE pc[p] = "imports" -> (N - idx[p]) + 2 * N + 5
      [] pc[p] = "nest"    -> (N - idx[p]) + N + 4
      [] pc[p] = "close"   -> idx[p] + 3
      [] pc[p] = "tail"    -> 2
      [] pc[p] = "return"  -> 1
      [] OTHER             -> 0

SameInputs(p, q) ==
    /\ path_group[p] = path_group[q]
    /\ is_server[p] = is_server[q]
    /\ live_reload_import[p] = live_reload_import[q]

(* C8: two invocations with the same arguments return the same text
   whatever ran before or beside them, and every invocation goes on, within
   a number of steps fixed by the chain length, to return a text. *)
C8_DeterministicTotal ==
    /\ [](\A p \in Procs : \A q \in Procs :
             (Done(p) /\ Done(q) /\ SameInputs(p, q)) => Out(p) = Out(q))
    /\ [](\A p \in Procs :
             /\ pc[p] \in {"idle", "imports", "nest", "close", "tail", "return", "done"}
             /\ pc[p] \notin {"idle", "done"} => ENABLED Step(p)
             /\ Done(p) => Out(p) # <<>>)
    /\ [][\A p \in Procs :
             (pc[p] \notin {"idle", "done"} /\ <<pc[p], idx[p]>>' # <<pc[p], idx[p]>>)
                 => Rank(p)' < Rank(p)]_vars

C8_Witness ==
    /\ Done(1) /\ Done(2)
    /\ SameInputs(1, 2)
    /\ Len(path_group[1]) >= 1
    /\ Out(1) = Out(2)

(* C9: the opening and the closing tag of index i stand on lines of their
   own with the same indentation, which grows by one indent unit from i to
   i + 1 and is one unit, with no extra depth, for the outermost layout. *)
C9_Indentation ==
    \A p \in Procs : Done(p) =>
        LET m == Markup(Out(p))
            N == Len(path_group[p])
            opens(i) == {k \in 1..Len(m) : IsOpenTag(m[k]) /\ TagIndex(m[k]) = i}
            closes(i) == {k \in 1..Len(m) : IsCloseTag(m[k]) /\ TagIndex(m[k]) = i}
        IN  \A i \in 0..(N - 1) :
               /\ Cardinality(opens(i)) = 1
               /\ Cardinality(closes(i)) = 1
               /\ \A k \in opens(i) : \A c \in closes(i) :
                      /\ k # c
                      /\ m[k].indent = m[c].indent
                      /\ i = 0 => m[k].indent = IndentUnit
                      /\ \A n \in opens(i + 1) : m[n].indent = m[k].indent + IndentUnit
                      /\ \A n \in closes(i + 1) : m[n].indent = m[c].indent + IndentUnit

C9_Witness ==
    \E p \in Procs :
        /\ Done(p) /\ ~is_server[p]
        /\ Len(path_group[p]) >= 2
        /\ \E k \in 1..Len(Out(p)) :
               IsCloseTag(Out(p)[k]) /\ Out(p)[k].indent = 2 * IndentUnit

(* Line of the "};" that ends the Entrypoint declaration. *)
EntrypointEnd(text) == Min(FindLines(text, <<"}", ";">>))

(* C10: for the same chain and live-reload reference the server output and
   the client output share the prefix made of the preamble, the layout
   imports and the Entrypoint declaration through its "};", in that order,
   and differ only after it. *)
C10_ModeAffectsOnlyTail ==
    \A p \in Procs : \A q \in Procs :
        ( /\ Done(p) /\ Done(q)
          /\ path_group[p] = path_group[q]
          /\ live_reload_import[p] = live_reload_import[q]
          /\ is_server[p] /\ ~is_server[q] ) =>
            LET e == EntrypointEnd(Out(p))
                N == Len(path_group[p])
                pre == SubSeq(Out(p), 1, e)
            IN  /\ EntrypointEnd(Out(q)) = e
                /\ SubSeq(Out(q), 1, e) = pre
                /\ pre[1] = ImportReactLine
                /\ IsImport(pre[2]) /\ ImportSource(pre[2]) = live_reload_import[p]
                /\ \A i \in 1..N : IsLayoutImport(pre[3 + i])
                /\ pre[N + 5].toks = <<"const", "Entrypoint", "=", "(", ")", "=>", "{">>
                /\ IsMountCall(pre[N + 6])
                /\ e = 3 * N + 9
                /\ Out(p) # Out(q)
                /\ SubSeq(Out(p), e + 1, Len(Out(p))) # SubSeq(Out(q), e + 1, Len(Out(q)))

C10_Witness ==
    \E p \in Procs : \E q \in Procs :
        /\ Done(p) /\ Done(q)
        /\ path_group[p] = path_group[q]
        /\ Len(path_group[p]) >= 1
        /\ live_reload_import[p] = live_reload_import[q]
        /\ is_server[p] /\ ~is_server[q]
        /\ SubSeq(Out(p), 1, EntrypointEnd(Out(p))) = SubSeq(Out(q), 1, EntrypointEnd(Out(q)))

====
